---- MODULE Spec2Model ----
(***************************************************************************)
(* Port / Connection lifecycle and audit ledger of the NAP management      *)
(* backend (Express + Sequelize over PostgreSQL).                           *)
(*                                                                         *)
(* Rows are identified by positive integers; 0 is the id that matches no   *)
(* row and the value of a null / absent field.  Free-text columns that no  *)
(* handler branches on (nota, nombre, ubicacion, fecha_inicio ...) are not *)
(* represented.                                                            *)
(***************************************************************************)
EXTENDS Integers, Sequences, FiniteSets, TLC

\* ---------------------------------------------------------------- bounds
MaxPeticiones == 4      \* HTTP requests accepted in a behaviour
MaxPeticionesAuditoria == 3   \* the same, in the runs with a failing audit ledger
MaxPuertosEscaneo == 5        \* ports of the NAP in the runs of the capacity scan
MaxTotalPuertos == 3          \* largest total_puertos sent to POST /naps and PUT /naps/:id

\* ------------------------------------------------------------ data model
NULL == 0

Puertos    == {1, 2}    \* rows of table puertos, all on the one NAP
NAPs       == {1}
Clientes   == {1, 2}    \* rows of table clientes at start-up
Planes     == {1, 2}    \* rows of table planes (reference data)
Usuarios   == {1}       \* authenticated actors
Peticiones == {1, 2}    \* concurrently served crearConexion requests

EstadosPuerto   == {"LIBRE", "OCUPADO", "MANTENIMIENTO"}
EstadosConexion == {"ACTIVA", "SUSPENDIDA", "FINALIZADA"}
EstadosNAP      == {"ACTIVO", "MANTENIMIENTO", "SATURADO"}

\* fecha_fin is "null", "fecha" (a date sent by the caller) or "hoy" (new Date())

VARIABLES
  puertos,      \* [Puertos -> [nap_id, numero, estado]]
  naps,         \* [NAPs -> [total_puertos, estado]]
  clientes,     \* set of ids of the existing Cliente rows
  conexiones,   \* [existing Conexion ids -> row]
  sigConexion,  \* number of Conexion rows created so far + 1 (fresh primary key)
  auditoria,    \* sequence of Auditoria rows, in insertion order
  peticiones,   \* [Peticiones -> crearConexion request in flight]
  respuesta,    \* last response sent: [op, status, userId the handler gave the ORM]
  atendidas,    \* number of requests accepted so far
  cedulas,      \* [ids of the Cliente rows ever created -> ci]
  altas,        \* [Peticiones -> crearCliente request in flight]
  rellenos      \* [Peticiones -> crearNAP or crearPuertosParaNAP request in flight]

tablas == <<puertos, naps, clientes, conexiones, sigConexion>>
\* the state of the routes of /clientes that the Conexion routes leave alone
otras == <<cedulas, altas, rellenos>>
vars == <<puertos, naps, clientes, conexiones, sigConexion, auditoria, peticiones, respuesta, atendidas,
          cedulas, altas, rellenos>>

\* Conexion.estado ACTIVA or SUSPENDIDA: the connection still holds its port
Viva(c) == c.estado \in {"ACTIVA", "SUSPENDIDA"}

ConexionesVivasEn(p) == {c \in DOMAIN conexiones : conexiones[c].puerto_id = p /\ Viva(conexiones[c])}

\* include: [{ model: Conexion, as: 'conexion', where: { estado: 'ACTIVA' } }]
ConexionesActivasEn(p) == {c \in DOMAIN conexiones : conexiones[c].puerto_id = p /\ conexiones[c].estado = "ACTIVA"}

\* A request slot holds the locals of one crearConexion call between its awaits
PeticionLibre == [pc |-> "libre", puerto_id |-> NULL, cliente_id |-> NULL, plan_id |-> NULL,
                  fecha_fin |-> "null", creado_por |-> NULL, conexion |-> NULL]

\* alertas: the (tipo, nap_id) pairs of the list a response carries in data;
\* mensaje: the message of the body, kept where one status has several causes;
\* conexiones_finalizadas: the count in the data of DELETE /clientes/:id
\* A request slot holds the locals of one crearCliente call between its awaits
AltaLibre == [pc |-> "libre", ci |-> NULL]

\* A request slot holds the locals of one crearNAP or crearPuertosParaNAP call
\* between its awaits: the NAP and the numbers of the ports to insert
RellenoLibre == [pc |-> "libre", nap_id |-> NULL, puertosACrear |-> {}]

\* transaccion: the calls eliminarCliente made to end its transaction, in
\* order ("commit", "rollback", or the same with "lanza" when the call threw).
\* status 0: the handler ended without sending a response.
Responder(op, status, userId) ==
  [op |-> op, status |-> status, userId |-> userId, alertas |-> {}, mensaje |-> "",
   conexiones_finalizadas |-> 0, transaccion |-> <<>>]

\* ----------------------------------------------------------- audit ledger

\* Variant of registrarAuditoria that keeps one row per record: the new row
\* replaces the earlier rows of the same tabla and registro_id
registrarAuditoria_unaPorRegistro(libro, tabla, registroId, accion, datosAnteriores, datosNuevos, cambiadoPor, escribe) ==
  IF cambiadoPor = NULL THEN libro
  ELSE IF ~escribe THEN libro
  ELSE Append(SelectSeq(libro, LAMBDA fila : fila.tabla # tabla \/ fila.registro_id # registroId),
              [tabla |-> tabla, registro_id |-> registroId, accion |-> accion,
               datos_anteriores |-> datosAnteriores, datos_nuevos |-> datosNuevos,
               cambiado_por |-> cambiadoPor])

\* registrarAuditoria(tabla, registroId, accion, datosAnteriores, datosNuevos, cambiadoPor):
\* returns without writing when there is no user; a failure of Auditoria.create
\* (escribe = FALSE) is caught and logged.
registrarAuditoria(libro, tabla, registroId, accion, datosAnteriores, datosNuevos, cambiadoPor, escribe) ==
  IF cambiadoPor = NULL THEN libro
  ELSE IF ~escribe THEN libro
  ELSE Append(libro, [tabla |-> tabla, registro_id |-> registroId, accion |-> accion,
                      datos_anteriores |-> datosAnteriores, datos_nuevos |-> datosNuevos,
                      cambiado_por |-> cambiadoPor])

\* Variant of Cambiados that takes every attribute handed to update(...) as changed
Cambiados_todosLosCampos(anterior, nuevo) == DOMAIN nuevo

\* instancia._changed after instancia.update(...): the attributes whose value differs
Cambiados(anterior, nuevo) == {campo \in DOMAIN nuevo : anterior[campo] # nuevo[campo]}

\* Variant of UsuarioDeOpciones that falls back to the first user when neither
\* the options nor the transaction carry one
UsuarioDeOpciones_conUsuarioPorDefecto(userId, txUserId) ==
  IF userId # NULL THEN userId ELSE IF txUserId # NULL THEN txUserId ELSE 1

\* options.userId || options.transaction?.userId
UsuarioDeOpciones(userId, txUserId) == IF userId # NULL THEN userId ELSE txUserId

\* afterCreate hook
afterCreate(libro, tabla, id, instancia, usuarioId, escribe) ==
  IF usuarioId # NULL
  THEN registrarAuditoria(libro, tabla, id, "CREATE", <<>>, instancia, usuarioId, escribe)
  ELSE libro

\* Variant of afterUpdate that records the update even when no attribute changed
afterUpdate_sinFiltro(libro, tabla, id, anterior, nuevo, usuarioId, escribe) ==
  IF usuarioId # NULL
  THEN LET campos == Cambiados(anterior, nuevo)
       IN registrarAuditoria(libro, tabla, id, "UPDATE", [campo \in campos |-> anterior[campo]],
                             [campo \in campos |-> nuevo[campo]], usuarioId, escribe)
  ELSE libro

\* afterUpdate hook: only the changed attributes, nothing when none changed
afterUpdate(libro, tabla, id, anterior, nuevo, usuarioId, escribe) ==
  IF usuarioId # NULL
  THEN LET campos == Cambiados(anterior, nuevo)
           cambios == [campo \in campos |-> nuevo[campo]]
           datosAnteriores == [campo \in campos |-> anterior[campo]]
       IN IF campos # {}
          THEN registrarAuditoria(libro, tabla, id, "UPDATE", datosAnteriores, cambios, usuarioId, escribe)
          ELSE libro
  ELSE libro

\* afterDestroy hook
afterDestroy(libro, tabla, id, instancia, usuarioId, escribe) ==
  IF usuarioId # NULL
  THEN registrarAuditoria(libro, tabla, id, "DELETE", instancia, <<>>, usuarioId, escribe)
  ELSE libro

\* Variant of registrarAuditoriaLanza without the try/catch: the rejection of
\* Auditoria.create reaches the hook and, through the awaited update, the handler
registrarAuditoriaLanza_sinCatch(cambiadoPor, escribe) == cambiadoPor # NULL /\ ~escribe

\* Whether registrarAuditoria rejects: its catch logs the error of
\* Auditoria.create and does not rethrow
registrarAuditoriaLanza(cambiadoPor, escribe) == FALSE

\* Whether the afterUpdate / afterDestroy hook rejects (the hooks await registrarAuditoria)
afterUpdateLanza(anterior, nuevo, usuarioId, escribe) ==
  usuarioId # NULL /\ Cambiados(anterior, nuevo) # {} /\ registrarAuditoriaLanza(usuarioId, escribe)

afterDestroyLanza(usuarioId, escribe) ==
  usuarioId # NULL /\ registrarAuditoriaLanza(usuarioId, escribe)

\* ------------------------------------------------------------------ Init
Init ==
  /\ puertos = [p \in Puertos |-> [nap_id |-> 1, numero |-> p, estado |-> "LIBRE"]]
  /\ naps = [n \in NAPs |-> [total_puertos |-> Cardinality(Puertos), estado |-> "ACTIVO"]]
  /\ clientes = Clientes
  /\ conexiones = <<>>
  /\ sigConexion = 1
  /\ auditoria = <<>>
  /\ peticiones = [r \in Peticiones |-> PeticionLibre]
  /\ respuesta = Responder("ninguna", 0, NULL)
  /\ atendidas = 0
  /\ cedulas = [c \in Clientes |-> c]
  /\ altas = [r \in Peticiones |-> AltaLibre]
  /\ rellenos = [r \in Peticiones |-> RellenoLibre]

\* --------------------------------------------------------- crearConexion
\* POST /conexiones.  The handler runs without a transaction; every await is
\* a point where other requests are served.

\* Puerto.findByPk(puerto_id) and the estado check
crearConexion_LeerPuerto(r, puerto_id, cliente_id, plan_id, fecha_fin, creado_por) ==
  /\ peticiones[r].pc = "libre"
  /\ LET pet == [PeticionLibre EXCEPT !.puerto_id = puerto_id, !.cliente_id = cliente_id,
                                      !.plan_id = plan_id, !.fecha_fin = fecha_fin,
                                      !.creado_por = creado_por]
     IN IF puerto_id \notin Puertos
        THEN /\ peticiones' = [peticiones EXCEPT ![r] = PeticionLibre]
             /\ respuesta' = [Responder("crearConexion", 404, NULL) EXCEPT !.mensaje = "Puerto no encontrado"]
        ELSE IF puertos[puerto_id].estado # "LIBRE"
        THEN /\ peticiones' = [peticiones EXCEPT ![r] = PeticionLibre]
             /\ respuesta' = Responder("crearConexion", 400, NULL)
        ELSE /\ peticiones' = [peticiones EXCEPT ![r] = [pet EXCEPT !.pc = "puerto_ok"]]
             /\ UNCHANGED respuesta
  /\ UNCHANGED <<tablas, auditoria>>

\* Variant of crearConexion_Verificar that does not look the Plan up
crearConexion_Verificar_sinPlan(r) ==
  /\ peticiones[r].pc = "puerto_ok"
  /\ LET pet == peticiones[r]
     IN IF pet.cliente_id \notin clientes
        THEN /\ peticiones' = [peticiones EXCEPT ![r] = PeticionLibre]
             /\ respuesta' = [Responder("crearConexion", 404, NULL) EXCEPT !.mensaje = "Cliente no encontrado"]
        ELSE IF ConexionesActivasEn(pet.puerto_id) # {}
        THEN /\ peticiones' = [peticiones EXCEPT ![r] = PeticionLibre]
             /\ respuesta' = Responder("crearConexion", 400, NULL)
        ELSE /\ peticiones' = [peticiones EXCEPT ![r] = [pet EXCEPT !.pc = "verificado"]]
             /\ UNCHANGED respuesta
  /\ UNCHANGED <<tablas, auditoria>>

\* Cliente.findByPk, Plan.findByPk, Conexion.findOne({ puerto_id, estado: 'ACTIVA' })
crearConexion_Verificar(r) ==
  /\ peticiones[r].pc = "puerto_ok"
  /\ LET pet == peticiones[r]
     IN IF pet.cliente_id \notin clientes
        THEN /\ peticiones' = [peticiones EXCEPT ![r] = PeticionLibre]
             /\ respuesta' = [Responder("crearConexion", 404, NULL) EXCEPT !.mensaje = "Cliente no encontrado"]
        ELSE IF pet.plan_id \notin Planes
        THEN /\ peticiones' = [peticiones EXCEPT ![r] = PeticionLibre]
             /\ respuesta' = [Responder("crearConexion", 404, NULL) EXCEPT !.mensaje = "Plan no encontrado"]
        ELSE IF ConexionesActivasEn(pet.puerto_id) # {}
        THEN /\ peticiones' = [peticiones EXCEPT ![r] = PeticionLibre]
             /\ respuesta' = Responder("crearConexion", 400, NULL)
        ELSE /\ peticiones' = [peticiones EXCEPT ![r] = [pet EXCEPT !.pc = "verificado"]]
             /\ UNCHANGED respuesta
  /\ UNCHANGED <<tablas, auditoria>>

\* Conexion.create({...estado: 'ACTIVA', creado_por}): no options, so the
\* afterCreate hook sees no userId.  The insert fails (falla) on a persistence
\* error, and always when the referenced Cliente row is gone.
crearConexion_Crear(r, falla) ==
  /\ peticiones[r].pc = "verificado"
  /\ LET pet == peticiones[r]
         fila == [puerto_id |-> pet.puerto_id, cliente_id |-> pet.cliente_id,
                  plan_id |-> pet.plan_id, fecha_fin |-> pet.fecha_fin,
                  estado |-> "ACTIVA", creado_por |-> pet.creado_por]
     IN IF falla \/ pet.cliente_id \notin clientes
        THEN /\ peticiones' = [peticiones EXCEPT ![r] = PeticionLibre]
             /\ respuesta' = Responder("crearConexion", 500, NULL)
             /\ UNCHANGED <<conexiones, sigConexion, auditoria>>
        ELSE /\ conexiones' = (sigConexion :> fila) @@ conexiones
             /\ sigConexion' = sigConexion + 1
             /\ auditoria' = afterCreate(auditoria, "conexiones", sigConexion, fila,
                                         UsuarioDeOpciones(NULL, NULL), TRUE)
             /\ peticiones' = [peticiones EXCEPT ![r] = [pet EXCEPT !.pc = "creada", !.conexion = sigConexion]]
             /\ UNCHANGED respuesta
  /\ UNCHANGED <<puertos, naps, clientes>>

\* puerto.update({ estado: 'OCUPADO' }) on the instance read at the start, then the 201
crearConexion_OcuparPuerto(r, falla) ==
  /\ peticiones[r].pc = "creada"
  /\ LET pet == peticiones[r]
         p == pet.puerto_id
     IN IF falla
        THEN /\ peticiones' = [peticiones EXCEPT ![r] = PeticionLibre]
             /\ respuesta' = Responder("crearConexion", 500, NULL)
             /\ UNCHANGED <<puertos, auditoria>>
        ELSE /\ puertos' = [puertos EXCEPT ![p].estado = "OCUPADO"]
             /\ auditoria' = afterUpdate(auditoria, "puertos", p, [estado |-> "LIBRE"],
                                         [estado |-> "OCUPADO"], UsuarioDeOpciones(NULL, NULL), TRUE)
             /\ peticiones' = [peticiones EXCEPT ![r] = PeticionLibre]
             /\ respuesta' = Responder("crearConexion", 201, NULL)
  /\ UNCHANGED <<naps, clientes, conexiones, sigConexion>>

crearConexion_Continuar(r) ==
  \/ crearConexion_Verificar(r)
  \/ \E falla \in BOOLEAN : crearConexion_Crear(r, falla)
  \/ \E falla \in BOOLEAN : crearConexion_OcuparPuerto(r, falla)

\* ---------------------------------------------------- actualizarConexion
\* PUT /conexiones/:id with body { plan_id, fecha_fin, estado } (0 / "null" /
\* "" = not sent).  No transaction.  falla: 0 no write fails, 1 conexion.update
\* fails, 2 conexion.puerto.update fails.
\* Variant of estadoCambia that holds whenever the body carries an estado
estadoCambia_siempre(estado, estadoAnterior) == estado # ""

\* if (estado && estado !== estadoAnterior)
estadoCambia(estado, estadoAnterior) == estado # "" /\ estado # estadoAnterior

actualizarConexion_Resultado(id, plan_id, fecha_fin, estado, usuario, falla, escribe) ==
  LET sinCambios == [posible |-> TRUE, conexiones |-> conexiones, puertos |-> puertos,
                     auditoria |-> auditoria, status |-> 404]
  IN
  IF id \notin DOMAIN conexiones
  THEN sinCambios
  ELSE IF plan_id # NULL /\ plan_id \notin Planes
  THEN sinCambios
  ELSE
    LET conexion == conexiones[id]
        p == conexion.puerto_id
        estadoAnterior == conexion.estado
        \* values = omitBy(undefined): fecha_fin only when sent
        valores == [plan_id |-> IF plan_id # NULL THEN plan_id ELSE conexion.plan_id,
                    fecha_fin |-> IF fecha_fin # "null" THEN fecha_fin ELSE conexion.fecha_fin,
                    estado |-> IF estado # "" THEN estado ELSE conexion.estado]
        nueva == [conexion EXCEPT !.plan_id = valores.plan_id, !.fecha_fin = valores.fecha_fin,
                                  !.estado = valores.estado]
        usuarioId == UsuarioDeOpciones(usuario, NULL)
        libro1 == afterUpdate(auditoria, "conexiones", id, conexion, valores, usuarioId, escribe)
        lanza1 == afterUpdateLanza(conexion, valores, usuarioId, escribe)
        estadoPuerto == IF estado = "FINALIZADA" THEN "LIBRE" ELSE "OCUPADO"
        libro2 == afterUpdate(libro1, "puertos", p, [estado |-> puertos[p].estado],
                              [estado |-> estadoPuerto], usuarioId, escribe)
        lanza2 == afterUpdateLanza([estado |-> puertos[p].estado], [estado |-> estadoPuerto],
                                   usuarioId, escribe)
        conexiones1 == [conexiones EXCEPT ![id] = nueva]
        puertos1 == [puertos EXCEPT ![p].estado = estadoPuerto]
    IN IF falla = 1
       THEN \* conexion.update throws: nothing written
            [sinCambios EXCEPT !.posible = (Cambiados(conexion, valores) # {}), !.status = 500]
       ELSE IF lanza1
       THEN \* the hook of conexion.update throws after the row was written
            [posible |-> (falla = 0), conexiones |-> conexiones1, puertos |-> puertos,
             auditoria |-> libro1, status |-> 500]
       ELSE IF estadoCambia(estado, estadoAnterior)
       THEN IF falla = 2
            THEN \* conexion.puerto.update throws after the Conexion row was written
                 [posible |-> (puertos[p].estado # estadoPuerto), conexiones |-> conexiones1,
                  puertos |-> puertos, auditoria |-> libro1, status |-> 500]
            ELSE [posible |-> TRUE, conexiones |-> conexiones1, puertos |-> puertos1,
                  auditoria |-> libro2, status |-> IF lanza2 THEN 500 ELSE 200]
       ELSE [posible |-> (falla = 0), conexiones |-> conexiones1, puertos |-> puertos,
             auditoria |-> libro1, status |-> 200]

actualizarConexion(id, plan_id, fecha_fin, estado, usuario, falla, escribe) ==
  LET r == actualizarConexion_Resultado(id, plan_id, fecha_fin, estado, usuario, falla, escribe)
  IN /\ r.posible
     /\ conexiones' = r.conexiones
     /\ puertos' = r.puertos
     /\ auditoria' = r.auditoria
     /\ respuesta' = Responder("actualizarConexion", r.status, usuario)
     /\ UNCHANGED <<naps, clientes, sigConexion, peticiones>>

\* ----------------------------------------------------- finalizarConexion
\* puertosOcupados of a NAP, counted on the Puerto rows
PuertosOcupados(pts, n) == Cardinality({p \in DOMAIN pts : pts[p].nap_id = n /\ pts[p].estado = "OCUPADO"})

\* (puertosOcupados / nap.total_puertos) * 100 < 100, >= 100, >= 80 on exact quotients
OcupacionMenorQue100(pts, n) == PuertosOcupados(pts, n) * 100 < 100 * naps[n].total_puertos
OcupacionDesde(pts, n, pct) == PuertosOcupados(pts, n) * 100 >= pct * naps[n].total_puertos

\* PATCH /conexiones/:id/finalizar.  No transaction and no userId in any
\* update.  falla: 0 none, 1 conexion.update, 2 puerto.update, 3 nap.update.
finalizarConexion(id, falla) ==
  IF id \notin DOMAIN conexiones
  THEN /\ respuesta' = Responder("finalizarConexion", 404, NULL)
       /\ UNCHANGED <<tablas, auditoria, peticiones>>
  ELSE IF conexiones[id].estado = "FINALIZADA"
  THEN /\ respuesta' = Responder("finalizarConexion", 400, NULL)
       /\ UNCHANGED <<tablas, auditoria, peticiones>>
  ELSE
    LET conexion == conexiones[id]
        p == conexion.puerto_id
        n == puertos[p].nap_id
        valores == [estado |-> "FINALIZADA", fecha_fin |-> "hoy"]
        nueva == [conexion EXCEPT !.estado = "FINALIZADA", !.fecha_fin = "hoy"]
        libro1 == afterUpdate(auditoria, "conexiones", id, conexion, valores,
                              UsuarioDeOpciones(NULL, NULL), TRUE)
        puertos1 == [puertos EXCEPT ![p].estado = "LIBRE"]
        libro2 == afterUpdate(libro1, "puertos", p, [estado |-> puertos[p].estado],
                              [estado |-> "LIBRE"], UsuarioDeOpciones(NULL, NULL), TRUE)
        desaturar == naps[n].estado = "SATURADO" /\ OcupacionMenorQue100(puertos1, n)
        libro3 == IF desaturar
                  THEN afterUpdate(libro2, "naps", n, [estado |-> "SATURADO"], [estado |-> "ACTIVO"],
                                   UsuarioDeOpciones(NULL, NULL), TRUE)
                  ELSE libro2
    IN CASE falla = 1 ->
              /\ respuesta' = Responder("finalizarConexion", 500, NULL)
              /\ UNCHANGED <<tablas, auditoria, peticiones>>
         [] falla = 2 ->
              /\ puertos[p].estado # "LIBRE"
              /\ conexiones' = [conexiones EXCEPT ![id] = nueva]
              /\ auditoria' = libro1
              /\ respuesta' = Responder("finalizarConexion", 500, NULL)
              /\ UNCHANGED <<puertos, naps, clientes, sigConexion, peticiones>>
         [] falla = 3 ->
              /\ desaturar
              /\ conexiones' = [conexiones EXCEPT ![id] = nueva]
              /\ puertos' = puertos1
              /\ auditoria' = libro2
              /\ respuesta' = Responder("finalizarConexion", 500, NULL)
              /\ UNCHANGED <<naps, clientes, sigConexion, peticiones>>
         [] OTHER ->
              /\ conexiones' = [conexiones EXCEPT ![id] = nueva]
              /\ puertos' = puertos1
              /\ naps' = IF desaturar THEN [naps EXCEPT ![n].estado = "ACTIVO"] ELSE naps
              /\ auditoria' = libro3
              /\ respuesta' = Responder("finalizarConexion", 200, NULL)
              /\ UNCHANGED <<clientes, sigConexion, peticiones>>

\* ------------------------------------------------------- actualizarPuerto
\* PUT /puertos/:id with body { estado, nota } ("" = estado not sent); the
\* included conexion is the port's ACTIVA one.  puerto.update has no userId.
actualizarPuerto(id, estado, falla) ==
  IF id \notin Puertos
  THEN /\ respuesta' = Responder("actualizarPuerto", 404, NULL)
       /\ UNCHANGED <<tablas, auditoria, peticiones>>
  ELSE IF estado = "LIBRE" /\ ConexionesActivasEn(id) # {}
  THEN /\ respuesta' = Responder("actualizarPuerto", 400, NULL)
       /\ UNCHANGED <<tablas, auditoria, peticiones>>
  ELSE IF estado = "OCUPADO" /\ ConexionesActivasEn(id) = {}
  THEN /\ respuesta' = Responder("actualizarPuerto", 400, NULL)
       /\ UNCHANGED <<tablas, auditoria, peticiones>>
  ELSE IF falla
  THEN /\ respuesta' = Responder("actualizarPuerto", 500, NULL)
       /\ UNCHANGED <<tablas, auditoria, peticiones>>
  ELSE LET nuevo == IF estado # "" THEN estado ELSE puertos[id].estado
       IN /\ puertos' = [puertos EXCEPT ![id].estado = nuevo]
          /\ auditoria' = afterUpdate(auditoria, "puertos", id, [estado |-> puertos[id].estado],
                                      [estado |-> nuevo], UsuarioDeOpciones(NULL, NULL), TRUE)
          /\ respuesta' = Responder("actualizarPuerto", 200, NULL)
          /\ UNCHANGED <<naps, clientes, conexiones, sigConexion, peticiones>>

\* --------------------------------------------------------- obtenerAlertas
\* The alerts of the NAP table: one NAP_SATURADO per NAP found SATURADO, one
\* NAP_MANTENIMIENTO per NAP found in MANTENIMIENTO, and, among the NAPs found
\* ACTIVO only, one NAP_PROXIMO_SATURACION per NAP at 80% or more and below
\* 100%.  (The alerts of table mantenimientos are not modelled.)
AlertasDeNAPs ==
  {<<"NAP_SATURADO", n>> : n \in {m \in NAPs : naps[m].estado = "SATURADO"}}
    \cup {<<"NAP_MANTENIMIENTO", n>> : n \in {m \in NAPs : naps[m].estado = "MANTENIMIENTO"}}
    \cup {<<"NAP_PROXIMO_SATURACION", n>> :
            n \in {m \in NAPs : /\ naps[m].estado = "ACTIVO"
                                /\ OcupacionDesde(puertos, m, 80)
                                /\ OcupacionMenorQue100(puertos, m)}}

\* The scan as the controller of the same name had it: no NAP is updated
obtenerAlertas_sinActualizar ==
  /\ naps' = naps
  /\ respuesta' = [Responder("obtenerAlertas", 200, NULL) EXCEPT !.alertas = AlertasDeNAPs]
  /\ UNCHANGED <<puertos, clientes, conexiones, sigConexion, auditoria, peticiones>>

\* Capacity scan of the dashboard: every NAP in estado ACTIVO whose occupancy
\* reaches 100% is set to SATURADO (nap.update without userId).
obtenerAlertas ==
  /\ naps' = [n \in NAPs |->
                IF naps[n].estado = "ACTIVO" /\ OcupacionDesde(puertos, n, 100)
                THEN [naps[n] EXCEPT !.estado = "SATURADO"]
                ELSE naps[n]]
  /\ respuesta' = [Responder("obtenerAlertas", 200, NULL) EXCEPT !.alertas = AlertasDeNAPs]
  /\ UNCHANGED <<puertos, clientes, conexiones, sigConexion, auditoria, peticiones>>

\* -------------------------------------------------------- eliminarCliente
\* The ids of a set of rows in ascending order
RECURSIVE EnOrden(_)
EnOrden(ids) ==
  IF ids = {} THEN <<>>
  ELSE LET m == CHOOSE x \in ids : \A y \in ids : x <= y
       IN <<m>> \o EnOrden(ids \ {m})

\* cliente.conexiones.filter(c => c.estado === 'ACTIVA')
conexionesActivas(cliente_id) ==
  EnOrden({c \in DOMAIN conexiones : conexiones[c].cliente_id = cliente_id /\ conexiones[c].estado = "ACTIVA"})

\* The for loop over conexionesActivas inside the transaction.  est carries the
\* rows as the transaction sees them, the ledger, the number of queries issued
\* and whether one of them threw; query number falla (if any) throws.  Each
\* conexion.puerto is the instance loaded by the findByPk at the start: it is
\* saved only when that instance's estado is not yet LIBRE.  The hooks take
\* the user from transaction.userId, and Auditoria.create is given no
\* transaction: the ledger row is inserted on a connection of its own.
RECURSIVE finalizarActivas(_, _, _, _, _)
finalizarActivas(est, activas, txUserId, falla, escribe) ==
  IF activas = <<>> \/ est.error THEN est
  ELSE
    LET id == Head(activas)
        conexion == est.conexiones[id]
        p == conexion.puerto_id
        valores == [estado |-> "FINALIZADA", fecha_fin |-> "hoy"]
        nueva == [conexion EXCEPT !.estado = "FINALIZADA", !.fecha_fin = "hoy"]
        libro1 == afterUpdate(est.auditoria, "conexiones", id, conexion, valores,
                              UsuarioDeOpciones(NULL, txUserId), escribe)
        guardaPuerto == puertos[p].estado # "LIBRE"
        libro2 == afterUpdate(libro1, "puertos", p, [estado |-> puertos[p].estado],
                              [estado |-> "LIBRE"], UsuarioDeOpciones(NULL, txUserId), escribe)
        lanza1 == afterUpdateLanza(conexion, valores, UsuarioDeOpciones(NULL, txUserId), escribe)
        lanza2 == guardaPuerto /\ afterUpdateLanza([estado |-> puertos[p].estado], [estado |-> "LIBRE"],
                                                   UsuarioDeOpciones(NULL, txUserId), escribe)
    IN IF falla = est.escrituras + 1
       THEN [est EXCEPT !.error = TRUE]
       ELSE IF lanza1 \/ (guardaPuerto /\ falla = est.escrituras + 2)
       THEN [est EXCEPT !.conexiones = [est.conexiones EXCEPT ![id] = nueva],
                        !.auditoria = libro1, !.escrituras = est.escrituras + 1, !.error = TRUE]
       ELSE IF lanza2
       THEN [est EXCEPT !.conexiones = [est.conexiones EXCEPT ![id] = nueva],
                        !.puertos = [est.puertos EXCEPT ![p].estado = "LIBRE"],
                        !.auditoria = libro2, !.escrituras = est.escrituras + 2, !.error = TRUE]
       ELSE finalizarActivas(
              [est EXCEPT !.conexiones = [est.conexiones EXCEPT ![id] = nueva],
                          !.puertos = [est.puertos EXCEPT ![p].estado = "LIBRE"],
                          !.auditoria = libro2,
                          !.escrituras = est.escrituras + (IF guardaPuerto THEN 2 ELSE 1)],
              Tail(activas), txUserId, falla, escribe)

\* ON DELETE CASCADE of conexiones.cliente_id (Cliente.hasMany(Conexion) over a
\* NOT NULL foreign key): the rows of the destroyed Cliente go with it
SinConexionesDe(cons, cliente_id) ==
  [c \in {x \in DOMAIN cons : cons[x].cliente_id # cliente_id} |-> cons[c]]

\* transaction.commit() throws: the transaction is finished, so the
\* transaction.rollback() of the catch throws too ("Transaction cannot be
\* rolled back because it has been finished"), inside the catch block: the
\* handler's promise rejects and no response is sent
finTrasCommitFallido == [transaccion |-> <<"commit lanza", "rollback lanza">>, status |-> 0]

\* DELETE /clientes/:id inside sequelize.transaction().  falla = 0: no write
\* fails; otherwise the number of the write that throws (two per active
\* connection, then cliente.destroy, then transaction.commit).
eliminarCliente_Resultado(id, usuario, falla, escribe) ==
  LET sinCambios == [posible |-> TRUE, conexiones |-> conexiones, puertos |-> puertos,
                     clientes |-> clientes, auditoria |-> auditoria, status |-> 404,
                     conexiones_finalizadas |-> 0, transaccion |-> <<"rollback">>]
  IN
  IF id \notin clientes
  THEN [sinCambios EXCEPT !.posible = (falla = 0)]
  ELSE
    LET activas == conexionesActivas(id)
        est0 == [conexiones |-> conexiones, puertos |-> puertos, auditoria |-> auditoria,
                 escrituras |-> 0, error |-> FALSE]
        est1 == finalizarActivas(est0, activas, usuario, falla, escribe)
        libro2 == afterDestroy(est1.auditoria, "clientes", id, [id |-> id],
                               UsuarioDeOpciones(NULL, usuario), escribe)
        lanza == afterDestroyLanza(UsuarioDeOpciones(NULL, usuario), escribe)
    IN IF est1.error \/ falla = est1.escrituras + 1
       THEN \* catch: transaction.rollback(), 500
            [sinCambios EXCEPT !.posible = (falla <= est1.escrituras + 1),
                               !.auditoria = est1.auditoria, !.status = 500]
       ELSE IF lanza
       THEN \* the hook of cliente.destroy throws: rollback, 500
            [sinCambios EXCEPT !.posible = (falla <= est1.escrituras + 1),
                               !.auditoria = libro2, !.status = 500]
       ELSE IF falla = est1.escrituras + 2
       THEN \* transaction.commit() throws: the database keeps none of the writes
            [sinCambios EXCEPT !.auditoria = libro2, !.status = finTrasCommitFallido.status,
                               !.transaccion = finTrasCommitFallido.transaccion]
       ELSE \* transaction.commit(), 200; the count filters cliente.conexiones, the
            \* instances the loop has just updated, by estado === 'ACTIVA'
            [posible |-> (falla <= est1.escrituras + 1),
             conexiones |-> SinConexionesDe(est1.conexiones, id), puertos |-> est1.puertos,
             clientes |-> clientes \ {id}, auditoria |-> libro2, status |-> 200,
             transaccion |-> <<"commit">>,
             conexiones_finalizadas |->
               Cardinality({c \in DOMAIN est1.conexiones :
                              est1.conexiones[c].cliente_id = id /\ est1.conexiones[c].estado = "ACTIVA"})]

eliminarCliente(id, usuario, falla, escribe) ==
  LET r == eliminarCliente_Resultado(id, usuario, falla, escribe)
  IN /\ r.posible
     /\ conexiones' = r.conexiones
     /\ puertos' = r.puertos
     /\ clientes' = r.clientes
     /\ auditoria' = r.auditoria
     /\ respuesta' = [Responder("eliminarCliente", r.status, usuario)
                        EXCEPT !.conexiones_finalizadas = r.conexiones_finalizadas,
                               !.transaccion = r.transaccion]
     /\ UNCHANGED <<naps, sigConexion, peticiones>>

\* ---------------------------------------------------------- liberarPuerto
\* POST /puertos/:puerto_id/liberar.  routes/puertos.js imports liberarPuerto
\* from controllers/puertoController, which does not define it; the handler
\* is modelled on the design document's Release: every live Conexion on the
\* Puerto goes to FINALIZADA (fecha_fin stamped when absent), the Puerto is
\* left LIBRE, each changed row is audited under the actor, the occupancy
\* of a SATURADO NAP is recomputed after a change, and an already LIBRE Puerto
\* without live Conexion is a successful no-op.
RECURSIVE auditarFinalizadas(_, _, _)
auditarFinalizadas(libro, ids, usuario) ==
  IF ids = <<>> THEN libro
  ELSE LET id == Head(ids)
           conexion == conexiones[id]
           valores == [estado |-> "FINALIZADA",
                       fecha_fin |-> IF conexion.fecha_fin = "null" THEN "hoy" ELSE conexion.fecha_fin]
       IN auditarFinalizadas(afterUpdate(libro, "conexiones", id, conexion, valores, usuario, TRUE),
                             Tail(ids), usuario)

\* Variant of liberarPuerto_Resultado that frees the Puerto and leaves its Conexion rows alone
liberarPuerto_Resultado_soloPuerto(id, usuario) ==
  IF id \notin DOMAIN puertos
  THEN [conexiones |-> conexiones, puertos |-> puertos, naps |-> naps, auditoria |-> auditoria,
        status |-> 404]
  ELSE [conexiones |-> conexiones, puertos |-> [puertos EXCEPT ![id].estado = "LIBRE"], naps |-> naps,
        auditoria |-> afterUpdate(auditoria, "puertos", id, [estado |-> puertos[id].estado],
                                  [estado |-> "LIBRE"], usuario, TRUE),
        status |-> 200]

liberarPuerto_Resultado(id, usuario) ==
  IF id \notin DOMAIN puertos
  THEN [conexiones |-> conexiones, puertos |-> puertos, naps |-> naps, auditoria |-> auditoria,
        status |-> 404]
  ELSE
    LET vivas == ConexionesVivasEn(id)
        n == puertos[id].nap_id
        conexiones1 == [c \in DOMAIN conexiones |->
                          IF c \in vivas
                          THEN [conexiones[c] EXCEPT !.estado = "FINALIZADA",
                                                     !.fecha_fin = IF @ = "null" THEN "hoy" ELSE @]
                          ELSE conexiones[c]]
        libro1 == auditarFinalizadas(auditoria, EnOrden(vivas), usuario)
        puertos1 == [puertos EXCEPT ![id].estado = "LIBRE"]
        libro2 == afterUpdate(libro1, "puertos", id, [estado |-> puertos[id].estado],
                              [estado |-> "LIBRE"], usuario, TRUE)
        cambio == vivas # {} \/ puertos[id].estado # "LIBRE"
        desaturar == cambio /\ naps[n].estado = "SATURADO" /\ OcupacionMenorQue100(puertos1, n)
        libro3 == IF desaturar
                  THEN afterUpdate(libro2, "naps", n, [estado |-> "SATURADO"], [estado |-> "ACTIVO"],
                                   usuario, TRUE)
                  ELSE libro2
    IN [conexiones |-> conexiones1, puertos |-> puertos1,
        naps |-> IF desaturar THEN [naps EXCEPT ![n].estado = "ACTIVO"] ELSE naps,
        auditoria |-> libro3, status |-> 200]

\* Variant of liberarPuerto that answers 400 for a Puerto that is already LIBRE
liberarPuerto_rechazaLibre(id, usuario) ==
  LET r == liberarPuerto_Resultado(id, usuario)
      rechaza == id \in DOMAIN puertos /\ puertos[id].estado = "LIBRE"
  IN /\ conexiones' = IF rechaza THEN conexiones ELSE r.conexiones
     /\ puertos' = IF rechaza THEN puertos ELSE r.puertos
     /\ naps' = IF rechaza THEN naps ELSE r.naps
     /\ auditoria' = IF rechaza THEN auditoria ELSE r.auditoria
     /\ respuesta' = Responder("liberarPuerto", IF rechaza THEN 400 ELSE r.status, usuario)
     /\ UNCHANGED <<clientes, sigConexion, peticiones>>

liberarPuerto(id, usuario) ==
  LET r == liberarPuerto_Resultado(id, usuario)
  IN /\ conexiones' = r.conexiones
     /\ puertos' = r.puertos
     /\ naps' = r.naps
     /\ auditoria' = r.auditoria
     /\ respuesta' = Responder("liberarPuerto", r.status, usuario)
     /\ UNCHANGED <<clientes, sigConexion, peticiones>>

\* ----------------------------------------------------------- crearCliente
\* Variant of ciDuplicada for a table clientes without the unique index on ci
ciDuplicada_sinIndice(ci, menos) == FALSE

\* ci: { unique: true }: an insert or update that would give two rows the
\* same ci is refused by the database (SequelizeUniqueConstraintError).
\* menos: the row being updated, if any.
ciDuplicada(ci, menos) == \E c \in clientes \ {menos} : cedulas[c] = ci

\* Cliente.findOne({ where: { ci } })
clienteConCi(ci) == {c \in clientes : cedulas[c] = ci}

\* POST /clientes: the findOne and the 400 when a row has the ci
crearCliente_Buscar(r, ci) ==
  /\ altas[r].pc = "libre"
  /\ IF clienteConCi(ci) # {}
     THEN /\ respuesta' = Responder("crearCliente", 400, NULL)
          /\ UNCHANGED altas
     ELSE /\ altas' = [altas EXCEPT ![r] = [pc |-> "no_existe", ci |-> ci]]
          /\ UNCHANGED respuesta
  /\ UNCHANGED <<tablas, auditoria, peticiones, cedulas, rellenos>>

\* Cliente.create({ ci, ... }) without options: no audit row; the catch
\* answers 500 when the insert is refused
crearCliente_Crear(r) ==
  /\ altas[r].pc = "no_existe"
  /\ LET id == Cardinality(DOMAIN cedulas) + 1
     IN IF ciDuplicada(altas[r].ci, NULL)
        THEN /\ respuesta' = Responder("crearCliente", 500, NULL)
             /\ UNCHANGED <<clientes, cedulas>>
        ELSE /\ clientes' = clientes \cup {id}
             /\ cedulas' = (id :> altas[r].ci) @@ cedulas
             /\ respuesta' = Responder("crearCliente", 201, NULL)
  /\ altas' = [altas EXCEPT ![r] = AltaLibre]
  /\ UNCHANGED <<puertos, naps, conexiones, sigConexion, auditoria, peticiones, rellenos>>

\* PUT /clientes/:id with the ci of the body (validarCliente requires one):
\* 404, the 400 of the findOne when the ci changes, then cliente.update
actualizarCliente(id, ci) ==
  /\ IF id \notin clientes
     THEN /\ respuesta' = Responder("actualizarCliente", 404, NULL)
          /\ UNCHANGED cedulas
     ELSE IF ci # cedulas[id] /\ clienteConCi(ci) # {}
     THEN /\ respuesta' = Responder("actualizarCliente", 400, NULL)
          /\ UNCHANGED cedulas
     ELSE IF ciDuplicada(ci, id)
     THEN /\ respuesta' = Responder("actualizarCliente", 500, NULL)
          /\ UNCHANGED cedulas
     ELSE /\ cedulas' = [cedulas EXCEPT ![id] = ci]
          /\ respuesta' = Responder("actualizarCliente", 200, NULL)
  /\ UNCHANGED <<tablas, auditoria, peticiones, altas, rellenos>>

\* ---------------------------------------------------------- actualizarNAP
\* PUT /naps/:id: nap.update(req.body, { userId }).  validarNAP requires an
\* estado among ACTIVO, MANTENIMIENTO and FUERA_SERVICIO and a total_puertos
\* of 1 to 1000; the column estado is an ENUM without FUERA_SERVICIO, so that
\* update is refused by the database and the catch answers 500.
actualizarNAP(id, estado, total_puertos, usuario) ==
  IF id \notin NAPs
  THEN /\ respuesta' = Responder("actualizarNAP", 404, NULL)
       /\ UNCHANGED <<tablas, auditoria, peticiones, otras>>
  ELSE IF estado \notin EstadosNAP
  THEN /\ respuesta' = Responder("actualizarNAP", 500, usuario)
       /\ UNCHANGED <<tablas, auditoria, peticiones, otras>>
  ELSE LET valores == [estado |-> estado, total_puertos |-> total_puertos]
       IN /\ naps' = [naps EXCEPT ![id] = valores]
          /\ auditoria' = afterUpdate(auditoria, "naps", id, naps[id], valores,
                                      UsuarioDeOpciones(usuario, NULL), TRUE)
          /\ respuesta' = Responder("actualizarNAP", 200, usuario)
          /\ UNCHANGED <<puertos, clientes, conexiones, sigConexion, peticiones, otras>>

\* ------------------------------------------- crearNAP, crearPuertosParaNAP
\* Variant of numeroDuplicado for a table puertos without the unique index
numeroDuplicado_sinIndice(nap_id, numeros) == FALSE

\* indexes: [{ unique: true, fields: ['nap_id', 'numero'] }]: an insert of a
\* number the NAP already has is refused, and with it the whole bulkCreate
numeroDuplicado(nap_id, numeros) ==
  \E p \in DOMAIN puertos : puertos[p].nap_id = nap_id /\ puertos[p].numero \in numeros

\* The rows of a bulkCreate, one LIBRE port per number, in ascending order
FilasDePuertos(nap_id, numeros) ==
  LET orden == EnOrden(numeros)
  IN [i \in 1..Len(orden) |-> [nap_id |-> nap_id, numero |-> orden[i], estado |-> "LIBRE"]]

\* POST /naps: NAP.create(napData, { userId }) and the list 1..total_puertos
crearNAP_Crear(r, total_puertos, usuario) ==
  /\ rellenos[r].pc = "libre"
  /\ LET id == Len(naps) + 1
         fila == [estado |-> "ACTIVO", total_puertos |-> total_puertos]
     IN /\ naps' = Append(naps, fila)
        /\ auditoria' = afterCreate(auditoria, "naps", id, fila, UsuarioDeOpciones(usuario, NULL), TRUE)
        /\ rellenos' = [rellenos EXCEPT ![r] = [pc |-> "nap_creado", nap_id |-> id,
                                                puertosACrear |-> 1..total_puertos]]
  /\ UNCHANGED <<puertos, clientes, conexiones, sigConexion, peticiones, respuesta, cedulas, altas>>

\* Puerto.bulkCreate(puertos, { userId }) without individualHooks: no audit
\* row per port.  No transaction: when the insert fails the NAP stays.
crearNAP_Puertos(r, falla) ==
  /\ rellenos[r].pc = "nap_creado"
  /\ LET pet == rellenos[r]
     IN IF falla \/ numeroDuplicado(pet.nap_id, pet.puertosACrear)
        THEN /\ respuesta' = Responder("crearNAP", 500, NULL)
             /\ UNCHANGED puertos
        ELSE /\ puertos' = puertos \o FilasDePuertos(pet.nap_id, pet.puertosACrear)
             /\ respuesta' = Responder("crearNAP", 201, NULL)
  /\ rellenos' = [rellenos EXCEPT ![r] = RellenoLibre]
  /\ UNCHANGED <<naps, clientes, conexiones, sigConexion, auditoria, peticiones, cedulas, altas>>

\* POST /puertos/nap/:nap_id/crear: NAP.findByPk, Puerto.findAll and the loop
\* that collects the numbers 1..total_puertos no port has
crearPuertosParaNAP_Leer(r, nap_id) ==
  /\ rellenos[r].pc = "libre"
  /\ IF nap_id \notin DOMAIN naps
     THEN /\ respuesta' = Responder("crearPuertosParaNAP", 404, NULL)
          /\ UNCHANGED rellenos
     ELSE LET numerosExistentes == {puertos[p].numero : p \in {q \in DOMAIN puertos : puertos[q].nap_id = nap_id}}
              puertosACrear == (1..naps[nap_id].total_puertos) \ numerosExistentes
          IN IF puertosACrear = {}
             THEN /\ respuesta' = Responder("crearPuertosParaNAP", 200, NULL)
                  /\ UNCHANGED rellenos
             ELSE /\ rellenos' = [rellenos EXCEPT ![r] = [pc |-> "leido", nap_id |-> nap_id,
                                                          puertosACrear |-> puertosACrear]]
                  /\ UNCHANGED respuesta
  /\ UNCHANGED <<tablas, auditoria, peticiones, cedulas, altas>>

\* Puerto.bulkCreate(puertosACrear): 201, or the 500 of the catch
crearPuertosParaNAP_Crear(r) ==
  /\ rellenos[r].pc = "leido"
  /\ LET pet == rellenos[r]
     IN IF numeroDuplicado(pet.nap_id, pet.puertosACrear)
        THEN /\ respuesta' = Responder("crearPuertosParaNAP", 500, NULL)
             /\ UNCHANGED puertos
        ELSE /\ puertos' = puertos \o FilasDePuertos(pet.nap_id, pet.puertosACrear)
             /\ respuesta' = Responder("crearPuertosParaNAP", 201, NULL)
  /\ rellenos' = [rellenos EXCEPT ![r] = RellenoLibre]
  /\ UNCHANGED <<naps, clientes, conexiones, sigConexion, auditoria, peticiones, cedulas, altas>>

\* ------------------------------------------------------------- requests
\* A request is accepted while the budget lasts.  Every route sits behind
\* verificarToken, so a handler that reads req.usuario finds a user there.
Aceptar == /\ atendidas < MaxPeticiones
           /\ atendidas' = atendidas + 1

\* Request inputs: bodies that pass the validation middleware.  An id that
\* matches no row (0, plan 3) is tried once per handler.
CuerposCrear ==
  {<<puerto_id, cliente_id, 1>> : puerto_id \in Puertos, cliente_id \in Clientes}
    \cup {<<NULL, 1, 1>>, <<1, 1, 3>>}

CuerposActualizar ==
  {<<NULL, "null", estado>> : estado \in EstadosConexion}
    \cup {<<2, "null", "">>, <<3, "null", "">>, <<2, "null", "ACTIVA">>}

PedirCrearConexion(r) ==
  /\ Aceptar
  /\ UNCHANGED otras
  /\ \E c \in CuerposCrear, creado_por \in Usuarios :
       crearConexion_LeerPuerto(r, c[1], c[2], c[3], "null", creado_por)

ContinuarCrearConexion(r) ==
  /\ crearConexion_Continuar(r)
  /\ UNCHANGED <<atendidas, otras>>

\* escrituras: the outcomes of Auditoria.create that are tried (TRUE = it succeeds)
PedirActualizarConexion(escrituras) ==
  /\ Aceptar
  /\ UNCHANGED otras
  /\ \E id \in DOMAIN conexiones \cup {NULL}, c \in CuerposActualizar, usuario \in Usuarios,
        falla \in 0..2, escribe \in escrituras :
       actualizarConexion(id, c[1], c[2], c[3], usuario, falla, escribe)

PedirFinalizarConexion ==
  /\ Aceptar
  /\ UNCHANGED otras
  /\ \E id \in DOMAIN conexiones \cup {NULL}, falla \in 0..3 : finalizarConexion(id, falla)

PedirActualizarPuerto ==
  /\ Aceptar
  /\ UNCHANGED otras
  /\ \E id \in Puertos \cup {NULL}, estado \in EstadosPuerto \cup {""}, falla \in BOOLEAN :
       actualizarPuerto(id, estado, falla)

PedirObtenerAlertas ==
  /\ Aceptar
  /\ UNCHANGED otras
  /\ obtenerAlertas

PedirEliminarCliente(escrituras) ==
  /\ Aceptar
  /\ UNCHANGED otras
  /\ \E id \in Clientes, usuario \in Usuarios, falla \in 0..(2 * Cardinality(DOMAIN conexiones) + 2),
        escribe \in escrituras :
       eliminarCliente(id, usuario, falla, escribe)

Next ==
  \/ PedirCrearConexion(1)
  \/ ContinuarCrearConexion(1)
  \/ PedirActualizarConexion({TRUE})
  \/ PedirFinalizarConexion
  \/ PedirActualizarPuerto
  \/ PedirObtenerAlertas
  \/ PedirEliminarCliente({TRUE})

Spec == Init /\ [][Next]_vars

\* Only crearConexion requests, served concurrently on every slot
NextCarrera ==
  \E r \in Peticiones :
    \/ PedirCrearConexion(r)
    \/ ContinuarCrearConexion(r)

SpecCarrera == Init /\ [][NextCarrera]_vars

\* The calls made with a user, with an audit ledger that may be out of
\* service, over a shorter run of requests
EnPlazoAuditoria == atendidas' <= MaxPeticionesAuditoria

AuditoriaCrearConexion == PedirCrearConexion(1) /\ EnPlazoAuditoria

AuditoriaActualizarConexion == PedirActualizarConexion(BOOLEAN) /\ EnPlazoAuditoria

AuditoriaEliminarCliente == PedirEliminarCliente(BOOLEAN) /\ EnPlazoAuditoria

NextAuditoria ==
  \/ AuditoriaCrearConexion
  \/ ContinuarCrearConexion(1)
  \/ AuditoriaActualizarConexion
  \/ AuditoriaEliminarCliente

SpecAuditoria == Init /\ [][NextAuditoria]_vars

\* The capacity scan on a NAP of MaxPuertosEscaneo ports (crearNAP), found in
\* any estado (PUT /naps/:id sets it, the scan sets SATURADO), its ports in any
\* estado (PUT /puertos/:id, crearConexion), each OCUPADO port carrying an
\* ACTIVA Conexion
ConexionesDe(pts) ==
  LET ocupados == {p \in DOMAIN pts : pts[p].estado = "OCUPADO"}
      enesimo(i) == CHOOSE p \in ocupados : Cardinality({q \in ocupados : q <= p}) = i
  IN [i \in 1..Cardinality(ocupados) |->
        [estado |-> "ACTIVA", puerto_id |-> enesimo(i), cliente_id |-> 1, plan_id |-> 1,
         fecha_fin |-> "null", creado_por |-> 1]]

InitEscaneo ==
  /\ puertos \in {[p \in 1..MaxPuertosEscaneo |-> [nap_id |-> 1, numero |-> p, estado |-> e[p]]] :
                    e \in [1..MaxPuertosEscaneo -> EstadosPuerto]}
  /\ naps \in [NAPs -> [total_puertos : {MaxPuertosEscaneo}, estado : EstadosNAP]]
  /\ clientes = Clientes
  /\ conexiones = ConexionesDe(puertos)
  /\ sigConexion = Len(conexiones) + 1
  /\ auditoria = <<>>
  /\ peticiones = [r \in Peticiones |-> PeticionLibre]
  /\ respuesta = Responder("ninguna", 0, NULL)
  /\ atendidas = 0
  /\ cedulas = [c \in Clientes |-> c]
  /\ altas = [r \in Peticiones |-> AltaLibre]
  /\ rellenos = [r \in Peticiones |-> RellenoLibre]

NextEscaneo == PedirObtenerAlertas

SpecEscaneo == InitEscaneo /\ [][NextEscaneo]_vars

\* The routes of the Puerto and Conexion life cycle together with
\* POST /puertos/:puerto_id/liberar
PedirLiberarPuerto ==
  /\ Aceptar
  /\ UNCHANGED otras
  /\ \E id \in Puertos \cup {NULL}, usuario \in Usuarios : liberarPuerto(id, usuario)

NextLiberar ==
  \/ PedirCrearConexion(1)
  \/ ContinuarCrearConexion(1)
  \/ PedirActualizarConexion({TRUE})
  \/ PedirActualizarPuerto
  \/ PedirObtenerAlertas
  \/ PedirLiberarPuerto

SpecLiberar == Init /\ [][NextLiberar]_vars

\* The routes of /clientes, crearCliente served concurrently on every slot
Cedulas == {1, 2, 3}

PedirCrearCliente(r) ==
  /\ Aceptar
  /\ \E ci \in Cedulas : crearCliente_Buscar(r, ci)

ContinuarCrearCliente(r) ==
  /\ crearCliente_Crear(r)
  /\ UNCHANGED atendidas

PedirActualizarCliente ==
  /\ Aceptar
  /\ \E id \in DOMAIN cedulas, ci \in Cedulas : actualizarCliente(id, ci)

EliminarClienteCreado ==
  /\ Aceptar
  /\ \E id \in DOMAIN cedulas, usuario \in Usuarios : eliminarCliente(id, usuario, 0, TRUE)
  /\ UNCHANGED otras

NextClientes ==
  \/ \E r \in Peticiones : PedirCrearCliente(r)
  \/ \E r \in Peticiones : ContinuarCrearCliente(r)
  \/ PedirActualizarCliente
  \/ EliminarClienteCreado

SpecClientes == Init /\ [][NextClientes]_vars

\* The allocation and scan routes together with PUT /naps/:id
PedirActualizarNAP ==
  /\ Aceptar
  /\ \E id \in NAPs \cup {NULL}, estado \in {"ACTIVO", "MANTENIMIENTO", "FUERA_SERVICIO"},
        total_puertos \in 1..MaxTotalPuertos, usuario \in Usuarios :
       actualizarNAP(id, estado, total_puertos, usuario)

NextNAP ==
  \/ PedirCrearConexion(1)
  \/ ContinuarCrearConexion(1)
  \/ PedirObtenerAlertas
  \/ PedirActualizarNAP

SpecNAP == Init /\ [][NextNAP]_vars

\* The routes that create ports, served concurrently on every slot, from a
\* database without NAPs
InitPuertos ==
  /\ puertos = <<>>
  /\ naps = <<>>
  /\ clientes = Clientes
  /\ conexiones = <<>>
  /\ sigConexion = 1
  /\ auditoria = <<>>
  /\ peticiones = [r \in Peticiones |-> PeticionLibre]
  /\ respuesta = Responder("ninguna", 0, NULL)
  /\ atendidas = 0
  /\ cedulas = [c \in Clientes |-> c]
  /\ altas = [r \in Peticiones |-> AltaLibre]
  /\ rellenos = [r \in Peticiones |-> RellenoLibre]

PedirCrearNAP(r) ==
  /\ Aceptar
  /\ \E total_puertos \in 1..MaxTotalPuertos, usuario \in Usuarios :
       crearNAP_Crear(r, total_puertos, usuario)

ContinuarCrearNAP(r) ==
  /\ \E falla \in BOOLEAN : crearNAP_Puertos(r, falla)
  /\ UNCHANGED atendidas

PedirCrearPuertosParaNAP(r) ==
  /\ Aceptar
  /\ \E nap_id \in DOMAIN naps \cup {NULL} : crearPuertosParaNAP_Leer(r, nap_id)

ContinuarCrearPuertosParaNAP(r) ==
  /\ crearPuertosParaNAP_Crear(r)
  /\ UNCHANGED atendidas

NextPuertos ==
  \/ \E r \in Peticiones : PedirCrearNAP(r)
  \/ \E r \in Peticiones : ContinuarCrearNAP(r)
  \/ \E r \in Peticiones : PedirCrearPuertosParaNAP(r)
  \/ \E r \in Peticiones : ContinuarCrearPuertosParaNAP(r)

SpecPuertos == InitPuertos /\ [][NextPuertos]_vars

\* ================================================================ claims

\* No crearConexion call is between two of its awaits
EnReposo == \A r \in Peticiones : peticiones[r].pc = "libre"

\* C1: every Puerto is referenced by at most one Conexion whose estado is
\* ACTIVA or SUSPENDIDA.
C1_UnaConexionVivaPorPuerto ==
  \A p \in Puertos : Cardinality(ConexionesVivasEn(p)) <= 1

\* C2: whenever no operation is in progress, a Puerto is OCUPADO if and only
\* if some Conexion on it is ACTIVA or SUSPENDIDA.
C2_OcupadoSiiConexionViva ==
  EnReposo => \A p \in Puertos : (puertos[p].estado = "OCUPADO") <=> (ConexionesVivasEn(p) # {})

\* C3: of the crearConexion calls racing for one free Puerto at most one
\* succeeds: a call that answers 201 finds the Puerto still LIBRE when it
\* writes it, so no other call wrote the Puerto between its check and its
\* write.
C3_UnaSolaAsignacionGana ==
  [][\A r \in Peticiones :
       (peticiones[r].pc = "creada" /\ peticiones'[r].pc = "libre" /\ respuesta'.status = 201)
         => puertos[peticiones[r].puerto_id].estado = "LIBRE"]_vars

\* C4: crearConexion is all-or-nothing: when the call ends with a failed
\* write (500), the Conexion it created is not in the table.
C4_CrearConexionTodoONada ==
  [][\A r \in Peticiones :
       (peticiones[r].pc \in {"verificado", "creada"} /\ peticiones'[r].pc = "libre"
          /\ respuesta'.status = 500)
         => peticiones[r].conexion \notin DOMAIN conexiones']_vars

\* C5: a crearConexion call whose Puerto is not LIBRE when it is read, or
\* carries an ACTIVA or SUSPENDIDA Conexion when the existing connection is
\* looked up, answers 400 and changes no table and no ledger row.
C5_PuertoNoDisponible ==
  [][\A r \in Peticiones :
       /\ \A c \in CuerposCrear :
            (c[1] \in Puertos /\ puertos[c[1]].estado # "LIBRE"
               /\ crearConexion_LeerPuerto(r, c[1], c[2], c[3], "null", 1))
              => (respuesta'.status = 400 /\ UNCHANGED <<tablas, auditoria>>)
       /\ (peticiones[r].pc = "puerto_ok" /\ peticiones'[r].pc # "puerto_ok"
             /\ peticiones[r].cliente_id \in clientes /\ peticiones[r].plan_id \in Planes
             /\ ConexionesVivasEn(peticiones[r].puerto_id) # {})
            => (peticiones'[r].pc = "libre" /\ respuesta'.status = 400
                  /\ UNCHANGED <<tablas, auditoria>>)]_vars

\* C6: actualizarConexion on a Conexion that is already FINALIZADA, with any
\* target estado or only a plan change, answers 400 and changes neither the
\* tables nor the ledger.
C6_FinalizadaNoSeModifica ==
  [][\A id \in DOMAIN conexiones, c \in CuerposActualizar, usuario \in Usuarios, falla \in 0..2 :
       (conexiones[id].estado = "FINALIZADA" /\ c[1] # 3
          /\ actualizarConexion(id, c[1], c[2], c[3], usuario, falla, TRUE))
         => (respuesta'.status = 400 /\ UNCHANGED <<tablas, auditoria>>)]_vars

\* C7: every change of a Conexion's estado is ACTIVA -> SUSPENDIDA,
\* SUSPENDIDA -> FINALIZADA or ACTIVA -> FINALIZADA, and a FINALIZADA Conexion
\* keeps its estado.
C7_TransicionesMonotonas ==
  [][\A id \in DOMAIN conexiones \cap DOMAIN conexiones' :
       conexiones[id].estado # conexiones'[id].estado
         => <<conexiones[id].estado, conexiones'[id].estado>>
              \in {<<"ACTIVA", "SUSPENDIDA">>, <<"SUSPENDIDA", "FINALIZADA">>,
                   <<"ACTIVA", "FINALIZADA">>}]_vars

\* C8: when eliminarCliente commits, every Conexion of the client that was
\* ACTIVA or SUSPENDIDA is FINALIZADA (or gone with the client) and its Puerto
\* is LIBRE.
C8_EliminarClienteLiberaPuertos ==
  [][\A id \in clientes :
       id \notin clientes'
         => \A c \in DOMAIN conexiones :
              (conexiones[c].cliente_id = id /\ Viva(conexiones[c]))
                => /\ puertos'[conexiones[c].puerto_id].estado = "LIBRE"
                   /\ (c \in DOMAIN conexiones' => conexiones'[c].estado = "FINALIZADA")]_vars

\* C9: when eliminarCliente rolls its transaction back (client not found or a
\* failed write), every table and the audit ledger are as before the call.
C9_RollbackSinRastro ==
  [][(atendidas' # atendidas /\ respuesta'.op = "eliminarCliente" /\ respuesta'.status \in {404, 500})
       => UNCHANGED <<tablas, auditoria>>]_vars

\* A step whose writes reach the ORM with no user: any step of crearConexion,
\* and a handler that was given none
PasoSinUsuario ==
  \/ peticiones' # peticiones
  \/ atendidas' # atendidas /\ respuesta'.userId = NULL

\* C10: a create, update or delete performed with no user on the options and
\* none on the transaction appends no Auditoria row.
C10_SinUsuarioNoAudita ==
  [][PasoSinUsuario => auditoria' = auditoria]_vars

\* finalizarConexion, which hands the ORM no user, finalized a Conexion and
\* freed its Puerto while the ledger already held rows of audited calls
C10_Testigo ==
  /\ respuesta = Responder("finalizarConexion", 200, NULL)
  /\ \E c \in DOMAIN conexiones :
       conexiones[c].estado = "FINALIZADA" /\ puertos[conexiones[c].puerto_id].estado = "LIBRE"
  /\ Len(auditoria) > 0

\* Rows of the tracked tables that a step creates, changes or deletes
FilasTocadas ==
  Cardinality({p \in Puertos : puertos'[p] # puertos[p]})
  + Cardinality({n \in NAPs : naps'[n] # naps[n]})
  + Cardinality(clientes \ clientes')
  + Cardinality({c \in DOMAIN conexiones \cup DOMAIN conexiones' :
                   \/ c \notin DOMAIN conexiones
                   \/ c \notin DOMAIN conexiones'
                   \/ conexiones[c] # conexiones'[c]})

\* A step of one of the lifecycle handlers (allocation, transition,
\* finalization, release, client deletion)
PasoDeCiclo ==
  \/ peticiones' # peticiones
  \/ /\ atendidas' # atendidas
     /\ respuesta'.op \in {"actualizarConexion", "finalizarConexion", "liberarPuerto", "eliminarCliente"}

\* C11: every request is made by an authenticated user, and each row of a
\* tracked table that a step of a lifecycle handler creates, changes or
\* deletes adds exactly one Auditoria row, whose cambiado_por is that user.
C11_UnRegistroPorFila ==
  [][PasoDeCiclo =>
       /\ Len(auditoria') = Len(auditoria) + FilasTocadas
       /\ \A i \in (Len(auditoria) + 1)..Len(auditoria') : auditoria'[i].cambiado_por \in Usuarios]_vars

\* C12: no UPDATE row of the ledger is vacuous: its datos_anteriores and
\* datos_nuevos differ in at least one field (so an update that changed no
\* field left no row).
C12_SinRegistrosVacios ==
  \A i \in 1..Len(auditoria) :
    auditoria[i].accion = "UPDATE"
      => \E campo \in DOMAIN auditoria[i].datos_nuevos :
            /\ campo \in DOMAIN auditoria[i].datos_anteriores
            /\ auditoria[i].datos_anteriores[campo] # auditoria[i].datos_nuevos[campo]

\* actualizarConexion, called by a user, answered 200 and the ledger holds the
\* UPDATE row of a suspension, with the estado before and after it
C12_Testigo ==
  /\ respuesta = Responder("actualizarConexion", 200, 1)
  /\ \E i \in 1..Len(auditoria) :
       /\ auditoria[i].accion = "UPDATE"
       /\ auditoria[i].tabla = "conexiones"
       /\ auditoria[i].datos_anteriores = [estado |-> "ACTIVA"]
       /\ auditoria[i].datos_nuevos = [estado |-> "SUSPENDIDA"]

\* C13: an audited actualizarConexion that changes only the plan adds one
\* UPDATE row on the Conexion whose datos_anteriores and datos_nuevos hold
\* exactly the field plan_id, with the old and the new plan.
C13_SoloElPlan ==
  [][\A id \in DOMAIN conexiones, plan \in Planes, usuario \in Usuarios :
       (conexiones[id].plan_id # plan /\ actualizarConexion(id, plan, "null", "", usuario, 0, TRUE))
         => /\ Len(auditoria') = Len(auditoria) + 1
            /\ LET registro == auditoria'[Len(auditoria')]
               IN /\ registro.accion = "UPDATE"
                  /\ registro.tabla = "conexiones"
                  /\ registro.registro_id = id
                  /\ registro.cambiado_por = usuario
                  /\ registro.datos_anteriores = [plan_id |-> conexiones[id].plan_id]
                  /\ registro.datos_nuevos = [plan_id |-> plan]]_vars

\* A plan-only actualizarConexion was answered 200 and its row closes the ledger
C13_Testigo ==
  /\ respuesta = Responder("actualizarConexion", 200, 1)
  /\ Len(auditoria) > 0
  /\ auditoria[Len(auditoria)].datos_nuevos = [plan_id |-> 2]
  /\ \E c \in DOMAIN conexiones : conexiones[c].plan_id = 2

\* C14: a call whose Auditoria.create fails ends as the same call would with
\* the audit write succeeding: same status, same rows in every table; only
\* the ledger rows are missing.
C14_FalloDeAuditoriaNoAfecta ==
  [][/\ (atendidas' # atendidas /\ respuesta'.op = "actualizarConexion")
          => \A id \in DOMAIN conexiones \cup {NULL}, c \in CuerposActualizar, usuario \in Usuarios,
                falla \in 0..2 :
               actualizarConexion(id, c[1], c[2], c[3], usuario, falla, FALSE)
                 => LET r == actualizarConexion_Resultado(id, c[1], c[2], c[3], usuario, falla, TRUE)
                    IN /\ r.posible
                       /\ respuesta'.status = r.status
                       /\ conexiones' = r.conexiones
                       /\ puertos' = r.puertos
                       /\ auditoria' = auditoria
     /\ (atendidas' # atendidas /\ respuesta'.op = "eliminarCliente")
          => \A id \in Clientes, usuario \in Usuarios,
                falla \in 0..(2 * Cardinality(DOMAIN conexiones) + 2) :
               eliminarCliente(id, usuario, falla, FALSE)
                 => LET r == eliminarCliente_Resultado(id, usuario, falla, TRUE)
                    IN /\ r.posible
                       /\ respuesta'.status = r.status
                       /\ conexiones' = r.conexiones
                       /\ puertos' = r.puertos
                       /\ clientes' = r.clientes
                       /\ auditoria' = auditoria]_vars

\* A Conexion is SUSPENDIDA, which only an actualizarConexion call of a user
\* does, the call was answered 200 and the ledger is empty: the audit write
\* of the suspension failed
C14_Testigo ==
  /\ respuesta = Responder("actualizarConexion", 200, 1)
  /\ \E c \in DOMAIN conexiones : conexiones[c].estado = "SUSPENDIDA"
  /\ auditoria = <<>>

\* C15: the ledger is append-only: every step leaves the rows it already
\* holds in place and unchanged, and only adds rows after them.
C15_LibroSoloCrece ==
  [][/\ Len(auditoria') >= Len(auditoria)
     /\ SubSeq(auditoria', 1, Len(auditoria)) = auditoria]_vars

\* The ledger holds two rows about the same record, the later one written by
\* the call just answered
C15_Testigo ==
  /\ respuesta.userId # NULL
  /\ Len(auditoria) >= 2
  /\ \E i \in 1..(Len(auditoria) - 1) :
       /\ auditoria[i].tabla = auditoria[Len(auditoria)].tabla
       /\ auditoria[i].registro_id = auditoria[Len(auditoria)].registro_id

\* C16: when a call that answers 200 makes a Conexion FINALIZADA on a Puerto
\* of a NAP that is SATURADO, and the NAP's occupancy after the call is below
\* 100%, the NAP is ACTIVO after the call.
C16_FinalizarDesatura ==
  [][\A c \in DOMAIN conexiones :
       (/\ c \in DOMAIN conexiones'
        /\ conexiones[c].estado # "FINALIZADA"
        /\ conexiones'[c].estado = "FINALIZADA"
        /\ respuesta'.status = 200)
         => LET n == puertos[conexiones[c].puerto_id].nap_id
            IN (naps[n].estado = "SATURADO" /\ OcupacionMenorQue100(puertos', n))
                 => naps'[n].estado = "ACTIVO"]_vars

\* The step is a completed capacity scan
PasoDeEscaneo == atendidas' # atendidas /\ respuesta'.op = "obtenerAlertas" /\ respuesta'.status = 200

EnCasiSaturacion(n) == OcupacionDesde(puertos, n, 80) /\ OcupacionMenorQue100(puertos, n)

C18_SaturadoEstaLleno ==
  \A n \in NAPs :
    naps[n].estado = "SATURADO" => PuertosOcupados(puertos, n) = naps[n].total_puertos

\* C19: liberarPuerto on a Puerto that is LIBRE and has no live Conexion
\* answers 200 and leaves the Puerto, every Conexion, the NAP and the audit
\* ledger unchanged; hence after any successful liberarPuerto a second
\* liberarPuerto on the same Puerto answers 200 and changes nothing.
C19_LiberarEsIdempotente ==
  [][atendidas' # atendidas /\ respuesta'.op = "liberarPuerto" =>
       \A id \in Puertos, usuario \in Usuarios :
         liberarPuerto(id, usuario) =>
           /\ (puertos[id].estado = "LIBRE" /\ ConexionesVivasEn(id) = {}) =>
                (respuesta'.status = 200 /\ UNCHANGED <<puertos, conexiones, naps, auditoria>>)
           /\ respuesta'.status = 200 =>
                LET otra == liberarPuerto_Resultado(id, usuario)'
                IN /\ otra.status = 200
                   /\ otra.puertos = puertos' /\ otra.conexiones = conexiones'
                   /\ otra.naps = naps' /\ otra.auditoria = auditoria']_vars

\* The first request was liberarPuerto on a Puerto of the start-up state, all
\* of them LIBRE: it answered 200 and wrote nothing
C19_Testigo ==
  /\ respuesta = Responder("liberarPuerto", 200, 1)
  /\ atendidas = 1
  /\ auditoria = <<>>
  /\ conexiones = <<>>
  /\ \A p \in Puertos : puertos[p].estado = "LIBRE"

\* C20: after liberarPuerto answers 200 for a Puerto carrying a live Conexion
\* (ACTIVA or SUSPENDIDA), that Conexion is FINALIZADA, the Puerto is LIBRE,
\* no live Conexion is left on it, and the Cliente rows remain.
C20_LiberarFinalizaYLibera ==
  [][atendidas' # atendidas /\ respuesta'.op = "liberarPuerto" /\ respuesta'.status = 200 =>
       \A id \in Puertos, usuario \in Usuarios :
         liberarPuerto(id, usuario) /\ ConexionesVivasEn(id) # {} =>
           /\ \A c \in ConexionesVivasEn(id) :
                c \in DOMAIN conexiones' /\ conexiones'[c].estado = "FINALIZADA"
           /\ puertos'[id].estado = "LIBRE"
           /\ ConexionesVivasEn(id)' = {}
           /\ clientes' = clientes]_vars

\* The third request was liberarPuerto on the Puerto of a Conexion created
\* and then suspended: the ledger holds the rows of that Conexion going from
\* SUSPENDIDA to FINALIZADA and of its Puerto going to LIBRE
C20_Testigo ==
  /\ respuesta = Responder("liberarPuerto", 200, 1)
  /\ atendidas = 3
  /\ Len(auditoria) = 3
  /\ auditoria[3].tabla = "puertos" /\ auditoria[3].datos_nuevos = [estado |-> "LIBRE"]
  /\ \E i \in 1..Len(auditoria) :
       /\ auditoria[i].tabla = "conexiones"
       /\ auditoria[i].datos_anteriores = [estado |-> "SUSPENDIDA", fecha_fin |-> "null"]
       /\ auditoria[i].datos_nuevos = [estado |-> "FINALIZADA", fecha_fin |-> "hoy"]
       /\ conexiones[auditoria[i].registro_id].estado = "FINALIZADA"
       /\ puertos[conexiones[auditoria[i].registro_id].puerto_id].estado = "LIBRE"

\* C21: a crearConexion call whose plan_id matches no Plan changes no
\* Cliente, Puerto or Conexion row in any of its steps, and when its Puerto
\* is LIBRE and its Cliente exists it ends with 404 "Plan no encontrado".
C21_PlanInexistenteNoCambiaNada ==
  [][\A r \in Peticiones :
       LET pet == IF peticiones[r].pc = "libre" THEN peticiones'[r] ELSE peticiones[r]
       IN (peticiones'[r] # peticiones[r] /\ pet.pc # "libre" /\ pet.plan_id \notin Planes) =>
            /\ UNCHANGED <<tablas, auditoria>>
            /\ peticiones[r].pc = "puerto_ok" =>
                 /\ peticiones'[r] = PeticionLibre
                 /\ respuesta'.op = "crearConexion" /\ respuesta'.status = 404
                 /\ pet.cliente_id \in clientes => respuesta'.mensaje = "Plan no encontrado"]_vars

\* The first request was a crearConexion with an unknown plan_id on a LIBRE
\* Puerto for an existing Cliente: 404 "Plan no encontrado", nothing written
C21_Testigo ==
  /\ respuesta = [Responder("crearConexion", 404, NULL) EXCEPT !.mensaje = "Plan no encontrado"]
  /\ atendidas = 1
  /\ conexiones = <<>> /\ clientes = Clientes
  /\ \A p \in Puertos : puertos[p].estado = "LIBRE"

\* C22: the count returned by a successful eliminarCliente equals the number
\* of Conexion rows of the Cliente that were ACTIVA before the call, the ones
\* the call takes to FINALIZADA.
C22_CuentaLasFinalizadas ==
  [][(atendidas' # atendidas /\ respuesta'.op = "eliminarCliente" /\ respuesta'.status = 200) =>
       \A id \in clientes \ clientes' :
         respuesta'.conexiones_finalizadas =
           Cardinality({c \in DOMAIN conexiones :
                          conexiones[c].cliente_id = id /\ conexiones[c].estado = "ACTIVA"})]_vars

\* C23: after a call that answers with success and takes a Conexion into
\* FINALIZADA, the Conexion has a fecha_fin and its Puerto is LIBRE.
C23_FinalizadaConFechaYPuertoLibre ==
  [][respuesta'.status = 200 =>
       \A c \in DOMAIN conexiones :
         (/\ c \in DOMAIN conexiones'
          /\ conexiones[c].estado # "FINALIZADA"
          /\ conexiones'[c].estado = "FINALIZADA")
           => /\ conexiones'[c].fecha_fin # "null"
              /\ puertos'[conexiones'[c].puerto_id].estado = "LIBRE"]_vars

\* C24: a call that answers with success and takes a live Conexion to
\* SUSPENDIDA or ACTIVA leaves its Puerto OCUPADO, and no Conexion is created
\* on a Puerto while a SUSPENDIDA Conexion references it.
C24_SuspenderNoLibera ==
  [][/\ respuesta'.status = 200 =>
          \A c \in DOMAIN conexiones :
            (/\ c \in DOMAIN conexiones'
             /\ Viva(conexiones[c])
             /\ conexiones'[c].estado \in {"ACTIVA", "SUSPENDIDA"}
             /\ conexiones'[c].estado # conexiones[c].estado)
              => puertos'[conexiones[c].puerto_id].estado = "OCUPADO"
     /\ \A c \in DOMAIN conexiones' \ DOMAIN conexiones :
          \A d \in DOMAIN conexiones :
            ~(conexiones[d].puerto_id = conexiones'[c].puerto_id /\ conexiones[d].estado = "SUSPENDIDA")]_vars

\* The step is a call of actualizarConexion or finalizarConexion
PasoDeTransicion ==
  atendidas' # atendidas /\ respuesta'.op \in {"actualizarConexion", "finalizarConexion"}

\* C25: a Transition that changes the estado of a Conexion writes the
\* Conexion and its Puerto as one unit: once the call is over, whatever its
\* answer, the Puerto is in the estado that goes with the new estado of the
\* Conexion (LIBRE for FINALIZADA, OCUPADO otherwise), and the audit rows the
\* call appended have the Conexion row before the Puerto row.
C25_TransicionAtomica ==
  [][PasoDeTransicion =>
       /\ \A c \in DOMAIN conexiones :
            (c \in DOMAIN conexiones' /\ conexiones'[c].estado # conexiones[c].estado) =>
              puertos'[conexiones[c].puerto_id].estado =
                IF conexiones'[c].estado = "FINALIZADA" THEN "LIBRE" ELSE "OCUPADO"
       /\ \A i, k \in (Len(auditoria) + 1)..Len(auditoria') :
            (auditoria'[i].tabla = "conexiones" /\ auditoria'[k].tabla = "puertos") => i < k]_vars

\* C26: an actualizarConexion call whose estado equals the current estado of
\* the Conexion leaves that estado, every Puerto and every NAP unchanged,
\* writes at most the plan_id the body carries, and appends no audit row that
\* holds the estado field.
C26_MismoEstadoSoloOtrosCampos ==
  [][(atendidas' # atendidas /\ respuesta'.op = "actualizarConexion") =>
       \A id \in DOMAIN conexiones, c \in CuerposActualizar, usuario \in Usuarios, falla \in 0..2 :
         (c[3] = conexiones[id].estado /\ actualizarConexion(id, c[1], c[2], c[3], usuario, falla, TRUE)) =>
           /\ puertos' = puertos /\ naps' = naps
           /\ conexiones' \in {conexiones, [conexiones EXCEPT ![id].plan_id = c[1]]}
           /\ (respuesta'.status = 200 /\ c[1] \in Planes) => conexiones'[id].plan_id = c[1]
           /\ \A i \in (Len(auditoria) + 1)..Len(auditoria') :
                "estado" \notin DOMAIN auditoria'[i].datos_nuevos]_vars

\* The second request was an actualizarConexion with estado ACTIVA on the
\* ACTIVA Conexion the first one created: 200, the row as it was, the
\* ledger still empty
C26_Testigo ==
  /\ respuesta = Responder("actualizarConexion", 200, 1)
  /\ atendidas = 2
  /\ DOMAIN conexiones = {1} /\ conexiones[1].estado = "ACTIVA" /\ conexiones[1].plan_id = 1
  /\ auditoria = <<>>
  /\ puertos[conexiones[1].puerto_id].estado = "OCUPADO"

\* C27: in every reachable state no two Cliente rows have the same ci, also
\* when crearCliente calls for one ci interleave.
C27_UnClientePorCedula ==
  \A a, b \in clientes : a # b => cedulas[a] # cedulas[b]

\* Two crearCliente calls for the same new ci both passed the findOne; the
\* first insert made Cliente 3 and the second was refused with 500
C27_Testigo ==
  /\ respuesta = Responder("crearCliente", 500, NULL)
  /\ atendidas = 2
  /\ clientes = {1, 2, 3} /\ cedulas[3] = 3
  /\ \A r \in Peticiones : altas[r] = AltaLibre

\* C29: no step changes the total_puertos of a NAP, and after every step the
\* number of OCUPADO ports of each NAP is at most its total_puertos.
C29_CapacidadInmutable ==
  [][\A n \in NAPs :
       /\ naps'[n].total_puertos = naps[n].total_puertos
       /\ PuertosOcupados(puertos', n) <= naps'[n].total_puertos]_vars

\* The rows of table puertos of a NAP, and the NAP owning exactly one port
\* for each number 1..total_puertos
PuertosDe(pts, n) == {p \in DOMAIN pts : pts[p].nap_id = n}

Completo(pts, n) ==
  /\ \A i \in 1..naps[n].total_puertos :
       Cardinality({p \in PuertosDe(pts, n) : pts[p].numero = i}) = 1
  /\ \A p \in PuertosDe(pts, n) : pts[p].numero \in 1..naps[n].total_puertos

C30_TransaccionTerminaUnaVez ==
  [][(atendidas' # atendidas /\ respuesta'.op = "eliminarCliente") =>
       /\ respuesta'.transaccion \in {<<"commit">>, <<"rollback">>}
       /\ respuesta'.status # 0]_vars
====
